---------------------------- MODULE Spec2Model ----------------------------
(***************************************************************************)
(* The data-preparation pipeline of src/hello.py ("Mystery of the          *)
(* Vanishing Profits" dashboard script): load of the merged_data source,   *)
(* type coercion, derived columns, and the filter/aggregate step of each   *)
(* of the ten chapters, executed top to bottom as the script does.         *)
(*                                                                         *)
(* Representation.                                                         *)
(*   text     a tuple of one-character strings; <<>> is a missing cell     *)
(*            (pandas NaN in an object column: read_csv never yields "").  *)
(*   float    [k, n, d]: k = "num" is the rational n/d in lowest terms,    *)
(*            k = "nan" is NaN, k = "inf" is +inf (n = 1) or -inf (n = -1).*)
(*            Rounding error of IEEE doubles is not modelled.              *)
(*   table    a sequence of rows; a row is a record with one field per     *)
(*            column plus "index", the pandas index label.                 *)
(***************************************************************************)
EXTENDS Integers, Sequences, FiniteSets, TLC

\* ------------------------------------------------------------------ text

Null == << >>

Digits == <<"0", "1", "2", "3", "4", "5", "6", "7", "8", "9">>

Upper ==
  <<"A", "B", "C", "D", "E", "F", "G", "H", "I", "J", "K", "L", "M",
    "N", "O", "P", "Q", "R", "S", "T", "U", "V", "W", "X", "Y", "Z">>

Lower ==
  <<"a", "b", "c", "d", "e", "f", "g", "h", "i", "j", "k", "l", "m",
    "n", "o", "p", "q", "r", "s", "t", "u", "v", "w", "x", "y", "z">>

\* The characters of the model's texts, in code point order.
Alphabet == <<"-", ".", "/">> \o Digits \o Upper \o Lower

RECURSIVE Positions(_)
Positions(n) == IF n = 1 THEN Alphabet[1] :> 1 ELSE (Alphabet[n] :> n) @@ Positions(n - 1)

\* A character's place in Alphabet: its order among code points.
Ord == Positions(Len(Alphabet))

IsDigit(c) == Ord[c] \in Ord["0"]..Ord["9"]

DigitVal(c) == Ord[c] - Ord["0"]

DigitChar(n) == Digits[n + 1]

\* Python's str.__lt__: lexicographic on code points, a proper prefix first.
RECURSIVE TextLess(_, _)
TextLess(a, b) ==
  IF b = << >> THEN FALSE
  ELSE IF a = << >> THEN TRUE
  ELSE IF Head(a) = Head(b) THEN TextLess(Tail(a), Tail(b))
  ELSE Ord[Head(a)] < Ord[Head(b)]

\* str.lower() on one character.
LowerChar(c) ==
  IF Ord[c] \in Ord["A"]..Ord["Z"] THEN Lower[Ord[c] - Ord["A"] + 1] ELSE c

StrLower(s) == [i \in 1..Len(s) |-> LowerChar(s[i])] \o << >>

StartsWith(s, p) == Len(s) >= Len(p) /\ SubSeq(s, 1, Len(p)) = p

\* ----------------------------------------------------------------- float

NaN == [k |-> "nan", n |-> 0, d |-> 1]

Inf(s) == [k |-> "inf", n |-> s, d |-> 1]

Abs(x) == IF x < 0 THEN -x ELSE x

Sign(x) == IF x < 0 THEN -1 ELSE 1

RECURSIVE GCD(_, _)
GCD(a, b) == IF b = 0 THEN a ELSE GCD(b, a % b)

Frac(n, d) ==
  LET g == GCD(Abs(n), d) IN [k |-> "num", n |-> n \div g, d |-> d \div g]

Num(n) == Frac(n, 1)

IsNaN(x) == x.k = "nan"

FAdd(a, b) ==
  IF IsNaN(a) \/ IsNaN(b) THEN NaN
  ELSE IF a.k = "inf" THEN (IF b.k = "inf" /\ b.n # a.n THEN NaN ELSE a)
  ELSE IF b.k = "inf" THEN b
  ELSE Frac(a.n * b.d + b.n * a.d, a.d * b.d)

FMul(a, b) ==
  IF IsNaN(a) \/ IsNaN(b) THEN NaN
  ELSE IF a.k = "inf" \/ b.k = "inf"
    THEN (IF a.n = 0 \/ b.n = 0 THEN NaN ELSE Inf(Sign(a.n) * Sign(b.n)))
  ELSE Frac(a.n * b.n, a.d * b.d)

\* IEEE division: x/0 is +-inf for x # 0 and NaN for x = 0 (the zero is +0).
FDiv(a, b) ==
  IF IsNaN(a) \/ IsNaN(b) THEN NaN
  ELSE IF a.k = "inf" THEN (IF b.k = "inf" THEN NaN ELSE Inf(a.n * Sign(b.n)))
  ELSE IF b.k = "inf" THEN Num(0)
  ELSE IF b.n = 0 THEN (IF a.n = 0 THEN NaN ELSE Inf(Sign(a.n)))
  ELSE Frac(a.n * b.d * Sign(b.n), Abs(b.n) * a.d)

\* a < b on floats; every comparison with NaN is false.
FLt(a, b) ==
  IF IsNaN(a) \/ IsNaN(b) THEN FALSE
  ELSE IF a.k = "inf" THEN a.n = -1 /\ ~(b.k = "inf" /\ b.n = -1)
  ELSE IF b.k = "inf" THEN b.n = 1
  ELSE a.n * b.d < b.n * a.d

FLe(a, b) == ~IsNaN(a) /\ ~IsNaN(b) /\ ~FLt(b, a)

FAbs(a) == IF a.k = "inf" THEN Inf(1) ELSE [a EXCEPT !.n = Abs(a.n)]

\* numpy round(2): to the nearest multiple of 1/100, halves to even; NaN and
\* the infinities are kept.
Round2(a) ==
  IF a.k # "num" THEN a
  ELSE LET q == (a.n * 100) \div a.d
           r == (a.n * 100) % a.d
           up == 2 * r > a.d \/ (2 * r = a.d /\ q % 2 = 1)
       IN Frac(IF up THEN q + 1 ELSE q, 100)

\* ------------------------------------------------- cells of the data source

\* A boolean cell (read_csv gives a column of True/False the bool dtype).
BoolTrue == <<"bool:True">>

BoolFalse == <<"bool:False">>

\* str(x) of one cell, as Series.astype(str) applies it.
AsTypeStr(c) ==
  IF c = BoolTrue THEN <<"T", "r", "u", "e">>
  ELSE IF c = BoolFalse THEN <<"F", "a", "l", "s", "e">>
  ELSE IF c = Null THEN <<"n", "a", "n">>
  ELSE c

AllDigits(s) == s # << >> /\ \A i \in 1..Len(s) : IsDigit(s[i])

RECURSIVE DigitsValue(_)
DigitsValue(s) ==
  IF s = << >> THEN 0
  ELSE 10 * DigitsValue(SubSeq(s, 1, Len(s) - 1)) + DigitVal(s[Len(s)])

RECURSIVE Pow10(_)
Pow10(n) == IF n = 0 THEN 1 ELSE 10 * Pow10(n - 1)

DotAt(s) == {i \in 1..Len(s) : s[i] = "."}

\* An unsigned decimal literal: digits, or digits "." digits.
UnsignedValue(s) ==
  IF AllDigits(s) THEN Num(DigitsValue(s))
  ELSE IF Cardinality(DotAt(s)) = 1
    THEN LET p == CHOOSE i \in DotAt(s) : TRUE
             ip == SubSeq(s, 1, p - 1)
             fp == SubSeq(s, p + 1, Len(s))
         IN IF AllDigits(ip) /\ AllDigits(fp)
              THEN Frac(DigitsValue(ip) * Pow10(Len(fp)) + DigitsValue(fp), Pow10(Len(fp)))
              ELSE NaN
  ELSE NaN

\* pd.to_numeric(cell, errors="coerce"): the number a cell spells, NaN for a
\* missing cell and for text that spells no number.
ToNumeric(c) ==
  IF c = Null \/ c = BoolTrue \/ c = BoolFalse THEN NaN
  ELSE IF Head(c) = "-" /\ Len(c) > 1
    THEN LET v == UnsignedValue(Tail(c)) IN IF IsNaN(v) THEN NaN ELSE FMul(Num(-1), v)
  ELSE UnsignedValue(c)

NaT == [y |-> 0, m |-> 0, d |-> 0]

IsLeap(y) == (y % 4 = 0 /\ y % 100 # 0) \/ y % 400 = 0

DaysInMonth(y, m) ==
  IF m = 2 THEN (IF IsLeap(y) THEN 29 ELSE 28)
  ELSE IF m \in {4, 6, 9, 11} THEN 30 ELSE 31

\* pd.to_datetime(cell, errors="coerce") on a "YYYY-MM-DD" cell: the date, or
\* NaT when the cell is missing, is no date at all or names no calendar day
\* inside the range a datetime64[ns] holds.
ToDatetime(c) ==
  IF Len(c) = 10 /\ c[5] = "-" /\ c[8] = "-"
     /\ AllDigits(SubSeq(c, 1, 4)) /\ AllDigits(SubSeq(c, 6, 7)) /\ AllDigits(SubSeq(c, 9, 10))
    THEN LET y == DigitsValue(SubSeq(c, 1, 4))
             m == DigitsValue(SubSeq(c, 6, 7))
             d == DigitsValue(SubSeq(c, 9, 10))
         IN IF y \in 1678..2261 /\ m \in 1..12 /\ d \in 1..DaysInMonth(y, m)
              THEN [y |-> y, m |-> m, d |-> d]
              ELSE NaT
    ELSE NaT

\* DtYear, but NaT read as the epoch.
DtYearEpoch(t) == IF t = NaT THEN Num(1970) ELSE Num(t.y)

\* Series.dt.year: the year, NaN for NaT.
DtYear(t) == IF t = NaT THEN NaN ELSE Num(t.y)

\* Series.dt.strftime('%Y-%m'): "YYYY-MM", missing for NaT.
DtStrftime(t) ==
  IF t = NaT THEN Null
  ELSE <<DigitChar(t.y \div 1000), DigitChar((t.y \div 100) % 10),
         DigitChar((t.y \div 10) % 10), DigitChar(t.y % 10), "-",
         DigitChar(t.m \div 10), DigitChar(t.m % 10)>>

\* ---------------------------------------------------------------- tables

Range(s) == {s[i] : i \in DOMAIN s}

\* The sequence f, its elements evaluated (once).
Rows(f) == f \o << >>

\* The row with the columns names and the cells vals.
RECURSIVE RowOf(_, _)
RowOf(names, vals) ==
  IF Len(names) = 1 THEN names[1] :> vals[1]
  ELSE (names[1] :> vals[1]) @@ RowOf(Tail(names), Tail(vals))

Column(t, c) == Rows([i \in DOMAIN t |-> t[i][c]])

\* df[c] = vals, position by position.
SetColumn(t, c, vals) == Rows([i \in DOMAIN t |-> (c :> vals[i]) @@ t[i]])

\* Series.sum(): NaN skipped, 0 for no value at all.
RECURSIVE SeriesSum(_)
SeriesSum(s) ==
  IF s = << >> THEN Num(0)
  ELSE IF IsNaN(Head(s)) THEN SeriesSum(Tail(s))
  ELSE FAdd(Head(s), SeriesSum(Tail(s)))

NotNaN(x) == ~IsNaN(x)

\* Series.mean(): the mean of the values that are not NaN, NaN for none.
SeriesMean(s) ==
  LET v == SelectSeq(s, NotNaN)
  IN IF v = << >> THEN NaN ELSE FDiv(SeriesSum(v), Num(Len(v)))

\* Series.cumsum() of a series without NaN.
RECURSIVE SeriesCumsum(_)
SeriesCumsum(s) ==
  IF s = << >> THEN << >>
  ELSE LET p == SeriesCumsum(SubSeq(s, 1, Len(s) - 1))
       IN Append(p, IF p = << >> THEN s[Len(s)] ELSE FAdd(p[Len(p)], s[Len(s)]))

RECURSIVE SetToSeq(_)
SetToSeq(S) ==
  IF S = {} THEN << >>
  ELSE LET x == CHOOSE x \in S : TRUE IN <<x>> \o SetToSeq(S \ {x})

\* Tuples of texts, compared as Python compares tuples of str.
RECURSIVE KeyLess(_, _)
KeyLess(a, b) ==
  IF a = << >> \/ b = << >> THEN FALSE
  ELSE IF Head(a) = Head(b) THEN KeyLess(Tail(a), Tail(b))
  ELSE TextLess(Head(a), Head(b))

KeyOf(r, keys) == Rows([j \in DOMAIN keys |-> r[keys[j]]])

HasKey(r, keys) == \A j \in DOMAIN keys : r[keys[j]] # Null

\* The group keys of groupby(keys) on text columns: the distinct key tuples
\* of the rows with no missing key (dropna=True), ascending (sort=True).
GroupKeys(t, keys) ==
  SortSeq(SetToSeq({KeyOf(t[i], keys) : i \in {j \in DOMAIN t : HasKey(t[j], keys)}}), KeyLess)

\* The values of column c in the rows of one group, in row order.
GroupValues(t, keys, k, c) ==
  LET rows == SelectSeq(t, LAMBDA r : HasKey(r, keys) /\ KeyOf(r, keys) = k)
  IN Column(rows, c)

\* groupby(keys)[cols].sum().reset_index(): one row per group, the key
\* columns and the sum of each column of cols.
GroupBySum(t, keys, cols) ==
  LET ks == GroupKeys(t, keys)
  IN Rows([g \in DOMAIN ks |->
             RowOf(keys \o cols,
                   ks[g] \o [j \in DOMAIN cols |-> SeriesSum(GroupValues(t, keys, ks[g], cols[j]))])])

\* groupby("Year") on the float column Year, NaN keys dropped.
GroupByYearSum(t, cols) ==
  LET ys == SortSeq(SetToSeq({t[i]["Year"] : i \in {j \in DOMAIN t : ~IsNaN(t[j]["Year"])}}), FLt)
  IN Rows([g \in DOMAIN ys |->
             RowOf(<<"Year">> \o cols,
                   <<ys[g]>> \o [j \in DOMAIN cols |->
                                  SeriesSum(Column(SelectSeq(t, LAMBDA r : r["Year"] = ys[g]), cols[j]))])])

DateLess(a, b) ==
  \/ a.y < b.y
  \/ a.y = b.y /\ a.m < b.m
  \/ a.y = b.y /\ a.m = b.m /\ a.d < b.d

IsDate(a) == "y" \in DOMAIN a

\* A missing value of a datetime or a float column.
IsNa(a) == IF IsDate(a) THEN a = NaT ELSE IsNaN(a)

ValueLess(a, b) == IF IsDate(a) THEN DateLess(a, b) ELSE FLt(a, b)

\* sort_values(by, ascending=...): the rows ordered by a datetime or a float
\* column, its missing values last. Rows with equal values keep their relative
\* order when stable and reverse it otherwise (sort_values sorts with an
\* unstable quicksort: the order of ties is the build's).
SortValues(t, by, ascending, stable) ==
  LET rows == Rows(t)
      key == Column(rows, by)
      Before(a, b) ==
        IF IsNa(a) THEN FALSE
        ELSE IF IsNa(b) THEN TRUE
        ELSE IF ascending THEN ValueLess(a, b) ELSE ValueLess(b, a)
      Less(i, j) ==
        IF Before(key[i], key[j]) THEN TRUE
        ELSE IF Before(key[j], key[i]) THEN FALSE
        ELSE IF stable THEN i < j ELSE i > j
      perm == SortSeq(Rows([i \in 1..Len(rows) |-> i]), Less)
  IN Rows([p \in 1..Len(rows) |-> rows[perm[p]]])

Head_(t, n) == SubSeq(t, 1, IF Len(t) < n THEN Len(t) ELSE n)

Tail_(t, n) == SubSeq(t, IF Len(t) < n THEN 1 ELSE Len(t) - n + 1, Len(t))

\* Series.max() / Series.min(): NaN skipped, NaN for no value at all.
SeriesMax(s) ==
  LET v == SelectSeq(s, NotNaN)
  IN IF v = << >> THEN NaN
     ELSE CHOOSE x \in Range(v) : \A y \in Range(v) : FLe(y, x)

SeriesMin(s) ==
  LET v == SelectSeq(s, NotNaN)
  IN IF v = << >> THEN NaN
     ELSE CHOOSE x \in Range(v) : \A y \in Range(v) : FLe(x, y)

\* A DataFrame a chapter holds: its rows, and whether it is the base object
\* itself (df_ch1 = df) or an object of its own (df[mask], df.copy()).
SameObject(t) == [base |-> TRUE, rows |-> t]

NewObject(t) == [base |-> FALSE, rows |-> t]

\* df[mask], mask a boolean Series over the rows: boolean indexing builds a
\* new DataFrame of the rows mask holds for.
BoolIndex(t, mask) ==
  LET at == SelectSeq(Rows([i \in DOMAIN t |-> i]), LAMBDA i : mask[i])
  IN NewObject(Rows([p \in DOMAIN at |-> t[at[p]]]))

\* frame[c] = vals as the base DataFrame sees it: untouched unless frame is
\* the base object, where the rows frame holds get the value and the others
\* NaN.
BaseAfterSetItem(base, frame, c, vals) ==
  IF ~frame.base THEN base
  ELSE [i \in DOMAIN base |->
          LET at == {p \in DOMAIN frame.rows : frame.rows[p]["index"] = base[i]["index"]}
          IN (c :> IF at = {} THEN NaN ELSE vals[CHOOSE p \in at : TRUE]) @@ base[i]]

\* ----------------------------------------------- load, coercion, derivation

\* get_df("merged_data"): the source's rows under a RangeIndex.
GetDf(src) == Rows([i \in DOMAIN src.rows |-> ("index" :> i - 1) @@ src.rows[i]])

CoerceTypes(t) ==
  Rows([i \in DOMAIN t |->
          [t[i] EXCEPT !["Order Date"] = ToDatetime(@),
                       !["Profit"] = ToNumeric(@),
                       !["Sales"] = ToNumeric(@),
                       !["Discount"] = ToNumeric(@)]])

ProfitMargin(r) == FMul(FDiv(r["Profit"], r["Sales"]), Num(100))

DeriveColumns(t) ==
  Rows([i \in DOMAIN t |->
          ("Year" :> DtYear(t[i]["Order Date"]))
          @@ ("Month" :> DtStrftime(t[i]["Order Date"]))
          @@ ("Profit Margin %" :> ProfitMargin(t[i]))
          @@ [t[i] EXCEPT !["Returned"] = AsTypeStr(@)]])

\* ---------------------------------------------------------------- chapters

All == <<"A", "l", "l">>

\* ["All"] + sorted(str(x) for x in df[c].unique() if pd.notnull(x))
Options(t, c) ==
  <<All>> \o SortSeq(SetToSeq({t[i][c] : i \in {j \in DOMAIN t : t[j][c] # Null}}), TextLess)

\* FilterSelected, but the selection ignored.
FilterSelectedAll(t, c, selected) == SameObject(t)

\* df[df[c] == selected] for a selection other than "All", df itself for "All".
FilterSelected(t, c, selected) ==
  IF selected # All THEN BoolIndex(t, Rows([i \in DOMAIN t |-> t[i][c] = selected]))
  ELSE SameObject(t)

TopN == 8

BottomM == 2

\* grp5, but sorted ascending.
grp5Ascending(t, stable) ==
  SortValues(GroupBySum(t, <<"Sub-Category">>, <<"Profit">>), "Profit", TRUE, stable)

\* df.groupby("Sub-Category")["Profit"].sum().sort_values(ascending=False)
grp5(t, stable) ==
  SortValues(GroupBySum(t, <<"Sub-Category">>, <<"Profit">>), "Profit", FALSE, stable)

top8(g) == Head_(g, TopN)

bottom2(g) == Tail_(g, BottomM)

\* pd.concat([top8, bottom2]).reset_index(drop=True)
combined(g) == Rows(top8(g) \o bottom2(g))

Highlight == Rows([i \in 1..(TopN + BottomM) |-> IF i <= TopN THEN "Top" ELSE "Bottom"])

\* combined['Highlight'] = [...]: a list as long as the frame is set row by
\* row, a list on a frame without rows makes the rows (the other columns
\* missing), and any other length raises ValueError.
SetHighlight(c) ==
  IF Len(c) = 0
    THEN Rows([i \in DOMAIN Highlight |->
                 ("Sub-Category" :> Null) @@ ("Profit" :> NaN) @@ ("Highlight" :> Highlight[i])])
  ELSE SetColumn(c, "Highlight", Highlight)

HighlightFits(c) == Len(c) = 0 \/ Len(c) = Len(Highlight)

InRange(r, lo, hi) == FLe(lo, r["Discount"]) /\ FLe(r["Discount"], hi)

min_disc(t) == SeriesMin(Column(t, "Discount"))

max_disc(t) == SeriesMax(Column(t, "Discount"))

\* The values the discount slider hands back here: the ends of its range.
SliderValues(t) == {min_disc(t), max_disc(t)}

\* df.pivot_table(values="Profit Margin %", index="Category", columns="Region",
\* aggfunc="mean").round(2): the groups whose mean is NaN are dropped, and the
\* categories and regions left span the grid.
heatmap_df(t) ==
  LET keys == <<"Category", "Region">>
      ks == GroupKeys(t, keys)
      mean(k) == SeriesMean(GroupValues(t, keys, k, "Profit Margin %"))
      kept == {k \in Range(ks) : ~IsNaN(mean(k))}
      index == SortSeq(SetToSeq({k[1] : k \in kept}), TextLess)
      columns == SortSeq(SetToSeq({k[2] : k \in kept}), TextLess)
  IN [index |-> index, columns |-> columns,
      values |-> [k \in Range(index) \X Range(columns) |->
                    IF k \in kept THEN Round2(mean(k)) ELSE NaN]]

IsLoss(r) == FLt(r["Profit"], Num(0))

\* df["Profit"] < 0
LossMask(t) == Rows([i \in DOMAIN t |-> IsLoss(t[i])])

\* df_loss, but a view that writes through to the base DataFrame.
df_loss_view(t, stable) ==
  SameObject(SortValues(BoolIndex(t, LossMask(t)).rows, "Order Date", TRUE, stable))

\* df[df["Profit"] < 0].sort_values("Order Date")
df_loss(t, stable) ==
  NewObject(SortValues(BoolIndex(t, LossMask(t)).rows, "Order Date", TRUE, stable))

\* cumsum_loss_df, but without the cumsum().
monthly_loss_df(loss) ==
  LET g == GroupBySum(loss, <<"Month">>, <<"Profit">>)
  IN Rows([i \in DOMAIN g |->
             ("Month" :> g[i]["Month"]) @@ ("Cumulative Loss" :> g[i]["Profit"])])

\* df_loss.groupby("Month")["Profit"].sum().cumsum().reset_index(), renamed.
cumsum_loss_df(loss) ==
  LET g == GroupBySum(loss, <<"Month">>, <<"Profit">>)
      c == SeriesCumsum(Column(g, "Profit"))
  IN Rows([i \in DOMAIN g |-> ("Month" :> g[i]["Month"]) @@ ("Cumulative Loss" :> c[i])])

\* df[df["Profit"] < 0].groupby(c)["Profit"].sum().abs()
LossBy(t, c) ==
  LET g == GroupBySum(BoolIndex(t, LossMask(t)).rows, <<c>>, <<"Profit">>)
  IN Rows([i \in DOMAIN g |-> FAbs(g[i]["Profit"])])

IsReturned(r) == StartsWith(StrLower(r["Returned"]), <<"y">>)

returns_loss(t) ==
  SeriesSum(Column(BoolIndex(t, Rows([i \in DOMAIN t |-> IsReturned(t[i])])).rows, "Profit"))

HeavyDiscount == Frac(3, 10)

IsHeavyLoss(r) == IsLoss(r) /\ FLt(HeavyDiscount, r["Discount"])

heavy_discount_loss(t) ==
  SeriesSum(Column(BoolIndex(t, Rows([i \in DOMAIN t |-> IsHeavyLoss(t[i])])).rows, "Profit"))

\* The (label, value) pairs handed to the pie chart.
LossAttribution(t) ==
  (IF LossBy(t, "Region") # << >>
     THEN <<[label |-> "Regions (max loss)", value |-> SeriesMax(LossBy(t, "Region"))]>>
     ELSE << >>)
  \o (IF LossBy(t, "Category") # << >>
        THEN <<[label |-> "Categories (max loss)", value |-> SeriesMax(LossBy(t, "Category"))]>>
        ELSE << >>)
  \o (IF ~IsNaN(returns_loss(t))
        THEN <<[label |-> "Returns", value |-> FAbs(returns_loss(t))]>>
        ELSE << >>)
  \o (IF ~IsNaN(heavy_discount_loss(t))
        THEN <<[label |-> "Heavy Discounts", value |-> FAbs(heavy_discount_loss(t))]>>
        ELSE << >>)

\* ------------------------------------------------------------------ state

VARIABLES
  pc,           \* the step of the script that runs next
  merged_data,  \* the data source: [found, rows], rows of raw cells
  df,           \* the base DataFrame
  selection,    \* what the current chapter's widget returned
  view,         \* the DataFrame the current chapter works on (df_ch1, df_loss, ...)
  fig,          \* the data the current chapter hands to its chart
  error         \* the exception that ended the script, "" for none

vars == <<pc, merged_data, df, selection, view, fig, error>>

NoSelection == << >>

Start(source) ==
  /\ pc = "load"
  /\ merged_data = source
  /\ df = << >>
  /\ selection = NoSelection
  /\ view = SameObject(<< >>)
  /\ fig = << >>
  /\ error = ""

Raise(e) ==
  /\ pc' = "failed"
  /\ error' = e
  /\ UNCHANGED <<merged_data, df, selection, view, fig>>

LoadData ==
  /\ pc = "load"
  /\ IF merged_data.found
       THEN /\ df' = GetDf(merged_data)
            /\ pc' = "coerce"
            /\ UNCHANGED <<merged_data, selection, view, fig, error>>
       ELSE Raise("RuntimeError")

Coerce ==
  /\ pc = "coerce"
  /\ df' = CoerceTypes(df)
  /\ pc' = "derive"
  /\ UNCHANGED <<merged_data, selection, view, fig, error>>

Derive ==
  /\ pc = "derive"
  /\ df' = DeriveColumns(df)
  /\ pc' = "ch1"
  /\ UNCHANGED <<merged_data, selection, view, fig, error>>

Chapter1 ==
  /\ pc = "ch1"
  /\ \E selected_category \in Range(Options(df, "Category")) :
       /\ selection' = selected_category
       /\ view' = FilterSelected(df, "Category", selected_category)
  /\ fig' = view'.rows
  /\ pc' = "ch2"
  /\ UNCHANGED <<merged_data, df, error>>

Chapter2 ==
  /\ pc = "ch2"
  /\ \E selected_granularity \in {"Month", "Year"} :
       /\ selection' = selected_granularity
       /\ view' = NewObject(df)
       /\ fig' = IF selected_granularity = "Month"
                   THEN GroupBySum(view'.rows, <<"Month">>, <<"Sales", "Profit">>)
                   ELSE GroupByYearSum(view'.rows, <<"Sales", "Profit">>)
  /\ pc' = "ch3"
  /\ UNCHANGED <<merged_data, df, error>>

Chapter3 ==
  /\ pc = "ch3"
  /\ \E selected_category_3 \in Range(Options(df, "Category")) :
       /\ selection' = selected_category_3
       /\ view' = FilterSelected(df, "Category", selected_category_3)
  /\ fig' = GroupBySum(view'.rows, <<"Region">>, <<"Sales", "Profit">>)
  /\ pc' = "ch4"
  /\ UNCHANGED <<merged_data, df, error>>

Chapter4 ==
  /\ pc = "ch4"
  /\ \E selected_region_4 \in Range(Options(df, "Region")) :
       /\ selection' = selected_region_4
       /\ view' = FilterSelected(df, "Region", selected_region_4)
  /\ fig' = GroupBySum(view'.rows, <<"Category", "Sub-Category">>, <<"Sales", "Profit">>)
  /\ pc' = "ch5"
  /\ UNCHANGED <<merged_data, df, error>>

Chapter5 ==
  /\ pc = "ch5"
  /\ \E stable \in BOOLEAN, stable_fig \in BOOLEAN :
       LET c == combined(grp5(df, stable))
       IN IF HighlightFits(c)
            THEN /\ selection' = NoSelection
                 /\ view' = SameObject(df)
                 /\ fig' = SortValues(SetHighlight(c), "Profit", TRUE, stable_fig)
                 /\ pc' = "ch6"
                 /\ UNCHANGED <<merged_data, df, error>>
            ELSE Raise("ValueError")

Chapter6 ==
  /\ pc = "ch6"
  /\ \E shape \in {"pair", "number", "other"}, lo \in SliderValues(df), hi \in SliderValues(df) :
       IF shape = "other" THEN Raise("RuntimeError")
       ELSE /\ selection' = IF shape = "pair" THEN <<lo, hi>> ELSE <<lo, lo>>
            /\ view' = BoolIndex(df, Rows([i \in DOMAIN df |->
                                             InRange(df[i], lo, IF shape = "pair" THEN hi ELSE lo)]))
            /\ fig' = view'.rows
            /\ pc' = "ch7"
            /\ UNCHANGED <<merged_data, df, error>>

Chapter7 ==
  /\ pc = "ch7"
  /\ \E selected_category_7 \in Range(Options(df, "Category")) :
       /\ selection' = selected_category_7
       /\ view' = FilterSelected(df, "Category", selected_category_7)
  /\ fig' = GroupBySum(view'.rows, <<"Region", "Returned">>, <<"Sales", "Profit">>)
  /\ pc' = "ch8"
  /\ UNCHANGED <<merged_data, df, error>>

Chapter8 ==
  /\ pc = "ch8"
  /\ selection' = NoSelection
  /\ view' = SameObject(df)
  /\ fig' = heatmap_df(df)
  /\ pc' = "ch9"
  /\ UNCHANGED <<merged_data, df, error>>

Chapter9 ==
  /\ pc = "ch9"
  /\ selection' = NoSelection
  /\ \E stable \in BOOLEAN :
       LET loss == df_loss(df, stable)
           cum == SeriesCumsum(Column(loss.rows, "Profit"))
       IN IF loss.rows # << >>
            THEN /\ view' = [loss EXCEPT !.rows = SetColumn(@, "Cumulative Loss", cum)]
                 /\ df' = BaseAfterSetItem(df, loss, "Cumulative Loss", cum)
                 /\ fig' = cumsum_loss_df(view'.rows)
            ELSE /\ view' = loss
                 /\ df' = df
                 /\ fig' = << >>
  /\ pc' = "ch10"
  /\ UNCHANGED <<merged_data, error>>

Chapter10 ==
  /\ pc = "ch10"
  /\ selection' = NoSelection
  /\ view' = SameObject(df)
  /\ fig' = LossAttribution(df)
  /\ pc' = "done"
  /\ UNCHANGED <<merged_data, df, error>>

Next ==
  \/ LoadData
  \/ Coerce
  \/ Derive
  \/ Chapter1
  \/ Chapter2
  \/ Chapter3
  \/ Chapter4
  \/ Chapter5
  \/ Chapter6
  \/ Chapter7
  \/ Chapter8
  \/ Chapter9
  \/ Chapter10

\* ------------------------------------------------------------ data sources

RECURSIVE NatText(_)
NatText(n) == IF n < 10 THEN <<DigitChar(n)>> ELSE Append(NatText(n \div 10), DigitChar(n % 10))

IntText(n) == IF n < 0 THEN <<"-">> \o NatText(-n) ELSE NatText(n)

RawRow(date, category, sub, region, sales, profit, discount, returned) ==
  [c \in {"Order Date", "Category", "Sub-Category", "Region", "Sales", "Profit",
          "Discount", "Returned"} |->
     CASE c = "Order Date" -> date
       [] c = "Category" -> category
       [] c = "Sub-Category" -> sub
       [] c = "Region" -> region
       [] c = "Sales" -> sales
       [] c = "Profit" -> profit
       [] c = "Discount" -> discount
       [] c = "Returned" -> returned]

Furniture == <<"F", "u", "r", "n", "i", "t", "u", "r", "e">>

Technology == <<"T", "e", "c", "h", "n", "o", "l", "o", "g", "y">>

East == <<"E", "a", "s", "t">>

West == <<"W", "e", "s", "t">>

Jan15 == <<"2", "0", "2", "4", "-", "0", "1", "-", "1", "5">>

Feb03 == <<"2", "0", "2", "4", "-", "0", "2", "-", "0", "3">>

Dec30 == <<"2", "0", "2", "3", "-", "1", "2", "-", "3", "0">>

Feb30 == <<"2", "0", "2", "4", "-", "0", "2", "-", "3", "0">>

NotADate == <<"n", "/", "a">>

Tenth2 == <<"0", ".", "2">>

Tenth5 == <<"0", ".", "5">>

NotANumber == <<"a", "b", "c">>

Yes == <<"Y", "e", "s">>

SubName(i) == <<"S", DigitChar((i \div 10) % 10), DigitChar(i % 10)>>

Source(rows) == [found |-> TRUE, rows |-> rows]

NoSource == [found |-> FALSE, rows |-> << >>]

\* Rows that carry nothing but a sub-category: with them the data has enough
\* sub-categories for chapter 5 to pass.
FillerSubCategories == 10

Filler ==
  [i \in 1..FillerSubCategories |-> RawRow(Null, Null, SubName(i), Null, Null, Null, Null, Null)]

\* What varies with a row's position where a family does not choose it.
CategoryAt(i) == IF i % 2 = 1 THEN Furniture ELSE Technology

RegionAt(i) == IF i % 3 = 1 THEN East ELSE West

DiscountAt(i) == IF i % 2 = 1 THEN Tenth2 ELSE Tenth5

ReturnedAt(i) == IF i % 3 = 0 THEN Yes ELSE <<"N">>

\* Ranking data: n sub-categories, one row each, its profit a gain or a loss
\* (the choice repeats every SignPeriod rows) of a size that repeats every
\* third row, so the sums of the sub-categories tie and differ; the first two
\* sub-categories have a second row.
MaxSubCategories == 11

SignPeriod == 6

RankSource(n, sign) ==
  Source([i \in 1..n |->
            RawRow(Jan15, Furniture, SubName(i), East, <<"9">>,
                   IntText(sign[1 + (i % SignPeriod)] * (1 + (i % 3))), Tenth2, ReturnedAt(i))]
         \o [i \in 1..(IF n < 2 THEN n ELSE 2) |->
               RawRow(Feb03, Furniture, SubName(i), West, <<"9">>,
                      IF i = 1 THEN <<"-", "4">> ELSE <<"3">>, Tenth5, <<"N">>)])

InitRank ==
  \/ Start(NoSource)
  \/ \E n \in 0..MaxSubCategories : \E sign \in [1..SignPeriod -> {-1, 1}] :
       Start(RankSource(n, sign))

\* Cell data: rows whose date, sales and profit cells vary.
MaxCellRows == 1

RawDates == {Jan15, Dec30, Feb30, NotADate, Null}

RawSalesProfit ==
  {<<(<<"0">>), (<<"5">>)>>, <<(<<"0">>), (<<"0">>)>>, <<(<<"4">>), (<<"-", "1">>)>>,
   <<NotANumber, (<<"5">>)>>, <<Null, (<<"5">>)>>, <<(<<"4">>), Null>>}

CellSource(n, c) ==
  Source(Filler \o [i \in 1..n |->
                      RawRow(c[i][1], CategoryAt(i), SubName(i), RegionAt(i), c[i][2][1],
                             c[i][2][2], DiscountAt(i), ReturnedAt(i))])

InitCells ==
  \/ Start(NoSource)
  \/ \E n \in 0..MaxCellRows : \E c \in [1..n -> RawDates \X RawSalesProfit] :
       Start(CellSource(n, c))

\* Pivot data: rows whose (category, region) and whose sales and profit vary;
\* no row is in Technology and West.
MaxPivotRows == 2

PivotCells == {<<Furniture, East>>, <<Furniture, West>>, <<Technology, East>>}

PivotSalesProfit ==
  {<<(<<"0">>), (<<"5">>)>>, <<(<<"4">>), (<<"1">>)>>, <<NotANumber, (<<"1">>)>>,
   <<(<<"3">>), (<<"1">>)>>}

PivotSource(n, c) ==
  Source(Filler \o [i \in 1..n |->
                      RawRow(Jan15, c[i][1][1], SubName(i), c[i][1][2], c[i][2][1], c[i][2][2],
                             Tenth2, ReturnedAt(i))])

InitPivot ==
  \/ Start(NoSource)
  \/ \E n \in 0..MaxPivotRows : \E c \in [1..n -> PivotCells \X PivotSalesProfit] :
       Start(PivotSource(n, c))

\* Loss data: rows whose date varies and whose profit is a loss of a size set
\* by the row's position (50, 30, 20, 10, ...), but for one row at most, a gain.
MaxLossRows == 3

RawLossDates == {Jan15, Feb03, Dec30, NotADate}

LossAt(i) == IntText(-(IF i = 1 THEN 50 ELSE IF i = 2 THEN 30 ELSE IF i = 3 THEN 20 ELSE 10))

LossSource(n, dates, gain) ==
  Source(Filler \o [i \in 1..n |->
                      RawRow(dates[i], Furniture, SubName(i), RegionAt(i), <<"9">>,
                             IF i = gain THEN <<"2", "0">> ELSE LossAt(i), Tenth2, ReturnedAt(i))])

InitLoss ==
  \/ Start(NoSource)
  \/ \E n \in 0..MaxLossRows : \E dates \in [1..n -> RawLossDates], gain \in 0..n :
       Start(LossSource(n, dates, gain))

\* Returns data: rows whose returned flag and profit vary.
MaxReturnRows == 2

RawReturned == {<<"Y">>, <<"y", "e", "s">>, <<"N">>, <<"T", "r", "u", "e">>, BoolTrue, BoolFalse}

ReturnSource(n, c) ==
  Source(Filler \o [i \in 1..n |->
                      RawRow(Jan15, CategoryAt(i), SubName(i), East, <<"9">>,
                             c[i][2], DiscountAt(i), c[i][1])])

InitReturns ==
  \/ Start(NoSource)
  \/ \E n \in 0..MaxReturnRows :
       \E c \in [1..n -> RawReturned \X {<<"-", "5">>, <<"2">>}] :
         Start(ReturnSource(n, c))

SpecRank == InitRank /\ [][Next]_vars

SpecCells == InitCells /\ [][Next]_vars

SpecPivot == InitPivot /\ [][Next]_vars

SpecLoss == InitLoss /\ [][Next]_vars

SpecReturns == InitReturns /\ [][Next]_vars

\* ----------------------------------------------------------------- claims

\* The coercion and derived-field stage has completed.
Enriched ==
  \/ pc \in {"ch1", "ch2", "ch3", "ch4", "ch5", "ch6", "ch7", "ch8", "ch9", "ch10", "done"}
  \/ pc = "failed" /\ merged_data.found

\* The cell the data source holds for the row of the base table r.
RawCell(r, c) == merged_data.rows[r["index"] + 1][c]

\* 100 * p / s for numbers p and s, s # 0.
Percent(p, s) == Frac(100 * p.n * s.d * Sign(s.n), p.d * Abs(s.n))

\* C1: for every record Profit Margin % is null when Sales is 0 or null, and
\* otherwise 100 * Profit / Sales (null for a null Profit); a record with
\* Sales = 0 never gets an infinite or zero margin.
C1_MarginNullOrRatio ==
  Enriched =>
    \A i \in DOMAIN df :
      LET sales == df[i]["Sales"]
          profit == df[i]["Profit"]
          margin == df[i]["Profit Margin %"]
      IN IF IsNaN(sales) \/ sales = Num(0) \/ IsNaN(profit) THEN IsNaN(margin)
         ELSE margin = Percent(profit, sales)

\* A raw date cell that is a date of the calendar, written YYYY-MM-DD.
IsCalendarDate(raw) ==
  /\ Len(raw) = 10
  /\ raw[5] = "-" /\ raw[8] = "-"
  /\ \A i \in {1, 2, 3, 4, 6, 7, 9, 10} : IsDigit(raw[i])
  /\ LET y == DigitsValue(SubSeq(raw, 1, 4))
         m == DigitsValue(SubSeq(raw, 6, 7))
         d == DigitsValue(SubSeq(raw, 9, 10))
     IN /\ m \in 1..12
        /\ d >= 1
        /\ d <= (IF m \in {4, 6, 9, 11} THEN 30
                 ELSE IF m # 2 THEN 31
                 ELSE IF y % 4 = 0 /\ (y % 100 # 0 \/ y % 400 = 0) THEN 29 ELSE 28)

\* C10: coercion ends the load for no row and keeps every row; a row whose raw
\* Order Date is unparseable has a null Year and a null Month, and a row with a
\* parseable date has the year of that date and its "YYYY-MM" key.
C10_DateCoercion ==
  /\ (merged_data.found /\ pc # "load") => Len(df) = Len(merged_data.rows)
  /\ Enriched =>
       \A i \in DOMAIN df :
         LET raw == RawCell(df[i], "Order Date")
         IN IF IsCalendarDate(raw)
              THEN /\ df[i]["Year"] = Num(DigitsValue(SubSeq(raw, 1, 4)))
                   /\ df[i]["Month"] = SubSeq(raw, 1, 7)
              ELSE /\ df[i]["Year"] = NaN
                   /\ df[i]["Month"] = Null

\* The stage has run on a row whose date is no date of the calendar, and the
\* script has gone on to its end.
C10_Witness ==
  /\ pc = "done"
  /\ \E i \in DOMAIN df :
       /\ RawCell(df[i], "Order Date") = Feb30
       /\ df[i]["Year"] = NaN
       /\ df[i]["Month"] = Null

\* The rows of category C in the base table grouped by (Category, Region):
\* the region and the sums of each.
CategorySlice(C) ==
  LET g == GroupBySum(df, <<"Category", "Region">>, <<"Sales", "Profit">>)
      slice == SelectSeq(g, LAMBDA r : r["Category"] = C)
  IN Rows([i \in DOMAIN slice |->
             RowOf(<<"Region", "Sales", "Profit">>,
                   <<slice[i]["Region"], slice[i]["Sales"], slice[i]["Profit"]>>)])

\* C5: for a category C of the selector, the rows chapter 3 gets by filtering
\* to Category = C and grouping by Region are the rows of the C slice of the
\* full table grouped by (Category, Region): the same regions, the same sums.
C5_FilterThenGroup ==
  (pc = "ch4" /\ selection # All) => fig = CategorySlice(selection)

\* Chapter 3 has run with Furniture selected on data that holds rows of
\* Technology too, and has rows to show.
C5_Witness ==
  /\ pc = "ch4"
  /\ selection = Furniture
  /\ fig # << >>
  /\ \E i \in DOMAIN df : df[i]["Category"] = Technology

\* The margins 100 * Profit / Sales of the records of one (category, region)
\* whose Sales is neither null nor 0 and whose Profit is not null.
DefinedMargins(cat, reg) ==
  LET has == SelectSeq(df, LAMBDA r : /\ r["Category"] = cat
                                       /\ r["Region"] = reg
                                       /\ ~IsNaN(r["Sales"])
                                       /\ r["Sales"] # Num(0)
                                       /\ ~IsNaN(r["Profit"]))
  IN Rows([i \in DOMAIN has |-> Percent(has[i]["Profit"], has[i]["Sales"])])

\* C9: a cell of the heat-map grid none of whose records has a defined margin
\* is null, and every other cell holds the mean of the defined margins of its
\* records (to the two decimals of the grid).
C9_PivotCells ==
  pc = "ch9" =>
    \A cat \in Range(fig.index), reg \in Range(fig.columns) :
      LET ms == DefinedMargins(cat, reg)
      IN IF ms = << >> THEN IsNaN(fig.values[<<cat, reg>>])
         ELSE fig.values[<<cat, reg>>] = Round2(SeriesMean(ms))

\* The records of the base table with a negative profit, by position.
LossRecords == {i \in DOMAIN df : FLt(df[i]["Profit"], Num(0))}

\* The month buckets of the negative-profit records.
LossBuckets == {df[i]["Month"] : i \in {j \in LossRecords : df[j]["Month"] # Null}}

\* The sum of Profit over a set of records of the base table.
RECURSIVE ProfitOver(_)
ProfitOver(S) ==
  IF S = {} THEN Num(0)
  ELSE LET i == CHOOSE i \in S : TRUE IN FAdd(df[i]["Profit"], ProfitOver(S \ {i}))

\* The months from year 0 to the month of a "YYYY-MM" key.
MonthNumber(key) == 12 * DigitsValue(SubSeq(key, 1, 4)) + DigitsValue(SubSeq(key, 6, 7))

\* C6: with a negative-profit record in the data, the series of chapter 9 has
\* one entry per month bucket of the negative-profit records, ascending by the
\* "YYYY-MM" key (which is the order of the months in time), and the value at
\* a bucket is the sum of Profit over the negative-profit records of that
\* bucket and of the buckets before it, wherever the records are in the data.
C6_CumulativeLoss ==
  (pc = "ch10" /\ LossRecords # {}) =>
    /\ Len(fig) = Cardinality(LossBuckets)
    /\ {fig[p]["Month"] : p \in DOMAIN fig} = LossBuckets
    /\ \A p, q \in DOMAIN fig :
         p < q => /\ TextLess(fig[p]["Month"], fig[q]["Month"])
                  /\ MonthNumber(fig[p]["Month"]) < MonthNumber(fig[q]["Month"])
    /\ \A p \in DOMAIN fig :
         fig[p]["Cumulative Loss"] =
           ProfitOver({i \in LossRecords :
                         /\ df[i]["Month"] # Null
                         /\ \/ df[i]["Month"] = fig[p]["Month"]
                            \/ TextLess(df[i]["Month"], fig[p]["Month"])})

\* Chapter 9 has run on losses of three months that come in the data in
\* another order than in time.
C6_Witness ==
  /\ pc = "ch10"
  /\ Len(fig) = 3
  /\ \E i, j \in LossRecords :
       /\ i < j
       /\ df[i]["Month"] # Null /\ df[j]["Month"] # Null
       /\ TextLess(df[j]["Month"], df[i]["Month"])

\* C8: once the coercion and derived-field stage is over no step changes the
\* base table, whatever the selectors and the slider return: not the chapters
\* whose view is the base table itself, not chapter 9 adding a column to its
\* loss view.
C8_BaseNeverMutated == [][Enriched => df' = df]_vars

\* Chapter 9 has added the Cumulative Loss column to a loss view with rows,
\* and the base table has no such column.
C8_Witness ==
  /\ pc = "ch10"
  /\ view.rows # << >>
  /\ \A p \in DOMAIN view.rows : "Cumulative Loss" \in DOMAIN view.rows[p]
  /\ \A i \in DOMAIN df : "Cumulative Loss" \notin DOMAIN df[i]

\* A raw returned flag that says returned in one of its encodings: the boolean
\* True, or a text that starts with Y or T in either case.
FlagsReturned(raw) ==
  \/ raw = BoolTrue
  \/ raw # Null /\ raw # BoolFalse /\ raw[1] \in {"Y", "y", "T", "t"}

ReturnedRecords == {i \in DOMAIN df : FlagsReturned(RawCell(df[i], "Returned"))}

\* The entries of the loss attribution under one label.
Entries(label) == SelectSeq(fig, LAMBDA e : e.label = label)

\* C2: for data with no returned-flagged record the loss attribution of
\* chapter 10 has no "Returns" entry at all.
C2_NoReturnsEntry ==
  (pc = "done" /\ ReturnedRecords = {}) => Entries("Returns") = << >>

\* The Returns total of the loss attribution: the value of its "Returns"
\* entry, 0 without one.
ReturnsTotal == IF Entries("Returns") = << >> THEN Num(0) ELSE Entries("Returns")[1].value

\* C7: the Returns total of chapter 10 is the lost profit of the records whose
\* flag says returned in any encoding, so a record flagged with the boolean
\* True or the text "True" counts exactly like one flagged "Y" or "Yes".
C7_CanonicalReturnedFlag ==
  pc = "done" => ReturnsTotal = FAbs(ProfitOver(ReturnedRecords))

\* The distinct sub-categories of the base table.
SubCategories == {df[i]["Sub-Category"] : i \in DOMAIN df} \ {Null}

\* The rows of the ranking chapter 5 tagged with one label.
Tagged(label) == {p \in DOMAIN fig : fig[p]["Highlight"] = label}

\* C3: with at least 10 distinct sub-categories, chapter 5 ends without an
\* error and returns 10 rows that name 10 distinct sub-categories, each with
\* the sum of its profit, ascending by that sum, 8 of them tagged "Top" and 2
\* "Bottom", and no "Top" row has a smaller sum than a "Bottom" row.
C3_TopBottomRanking ==
  Cardinality(SubCategories) >= 10 =>
    /\ error # "ValueError"
    /\ pc = "ch6" =>
         /\ Len(fig) = 10
         /\ Cardinality({fig[p]["Sub-Category"] : p \in DOMAIN fig}) = 10
         /\ \A p \in DOMAIN fig :
              /\ fig[p]["Sub-Category"] \in SubCategories
              /\ fig[p]["Profit"] =
                   ProfitOver({i \in DOMAIN df :
                                 /\ df[i]["Sub-Category"] = fig[p]["Sub-Category"]
                                 /\ ~IsNaN(df[i]["Profit"])})
         /\ \A p, q \in DOMAIN fig : p < q => FLe(fig[p]["Profit"], fig[q]["Profit"])
         /\ Cardinality(Tagged("Top")) = 8
         /\ Cardinality(Tagged("Bottom")) = 2
         /\ \A p \in Tagged("Top"), q \in Tagged("Bottom") :
              FLe(fig[q]["Profit"], fig[p]["Profit"])

\* Chapter 5 has ranked more than 10 sub-categories, gains and losses among
\* them, and a "Top" and a "Bottom" row have the same sum.
C3_Witness ==
  /\ pc = "ch6"
  /\ Cardinality(SubCategories) > 10
  /\ \E p, q \in DOMAIN fig : FLt(fig[p]["Profit"], Num(0)) /\ FLt(Num(0), fig[q]["Profit"])
  /\ \E p \in Tagged("Top"), q \in Tagged("Bottom") : fig[p]["Profit"] = fig[q]["Profit"]

\* C4: with fewer than 10 distinct sub-categories, chapter 5 ends without an
\* error and no sub-category is in a "Top" row and in a "Bottom" row.
C4_RankingGuarded ==
  Cardinality(SubCategories) < 10 =>
    /\ error # "ValueError"
    /\ pc = "ch6" =>
         \A p \in Tagged("Top"), q \in Tagged("Bottom") :
           fig[p]["Sub-Category"] \in SubCategories =>
             fig[p]["Sub-Category"] # fig[q]["Sub-Category"]

=============================================================================
